---- MODULE Spec2Model ----
(***************************************************************************)
(* A model of addressbook/models.py: the Party / Person / Organization     *)
(* multi-table hierarchy, the six generically related attachment models,   *)
(* DateMixin.save, Party.child and PartyManager.children.                  *)
(*                                                                         *)
(* The store is one table per model.  A Person or Organization row shares  *)
(* its primary key with its Party row (party_ptr).  An attachment row      *)
(* carries its owner as the pair (content_type, object_id).                *)
(* Text is a sequence of character codes, so that sorted() compares keys   *)
(* the way Python compares strings.  A nullable column holds None or       *)
(* Some(v).  Payload columns that no derived value and no operation reads  *)
(* (Person.title, the address/number/url/... of the attachments) are left  *)
(* out of the rows.                                                        *)
(***************************************************************************)
EXTENDS Integers, Sequences, FiniteSets, TLC

\* ------------------------------------------------------------- bounds
MaxId == 2
MaxAttId == 1
MaxAttachments == 2
MaxTime == 2
MaxRows == 2

VARIABLES party, person, organization, attachment, now, last

vars == <<party, person, organization, attachment, now, last>>

\* ------------------------------------------------------------- values
None == {}

Some(v) == {v}

Val(o) == CHOOSE v \in o : TRUE

\* Python truth of an id in `if self.id:`: None and 0 are both false.
Truthy(o) == o # None /\ Val(o) # 0

Ids == 1 .. MaxId

AttIds == 1 .. MaxAttId

SP == 32

Put(f, k, v) == [x \in DOMAIN f \cup {k} |-> IF x = k THEN v ELSE f[x]]

Restrict(f, S) == [x \in S |-> f[x]]

Max(S) == CHOOSE m \in S : \A x \in S : x <= m

\* The key an AutoField gets on INSERT when none was given.
NewId(used) == Max(used \cup {0}) + 1

\* What an operation hands back: err is "" on success, else the exception.
Ok(v) == [err |-> "", val |-> v]

Raise(e) == [err |-> e, val |-> <<>>]

\* ------------------------------------------------------------- choices
Kinds == {"EmailAddress", "StreetAddress", "PhoneNumber", "Website",
          "IMAccount", "Note"}

TYPE_CHOICES(kind) ==
    CASE kind = "EmailAddress" -> {"main", "personal", "work", "other"}
      [] kind = "StreetAddress" -> {"main", "home", "work", "other"}
      [] kind = "PhoneNumber" -> {"main", "home", "work", "mobile", "fax", "other"}
      [] kind = "Website" -> {"work", "personal", "other"}
      [] kind = "IMAccount" -> {"work", "personal", "other"}
      [] OTHER -> {}

SERVICE_CHOICES == {"aim", "msn", "icq", "jabber", "yahoo", "skype", "qq",
                    "sametime", "gadu-gadu", "google-talk", "other"}

\* Note has no type column; only IMAccount has a service column.
HasType(kind) == kind # "Note"

HasService(kind) == kind = "IMAccount"

\* ------------------------------------------------------------- text
Concat3(a, b, c) == a \o <<SP>> \o b \o <<SP>> \o c

\* a < b for Python strings: code point by code point, a proper prefix first.
StrLess(a, b) ==
    \E i \in 1 .. (Len(a) + 1) :
        /\ \A j \in 1 .. (i - 1) : j <= Len(b) /\ a[j] = b[j]
        /\ \/ i = Len(a) + 1 /\ Len(b) >= i
           \/ i <= Len(a) /\ i <= Len(b) /\ a[i] < b[i]

\* ' '.join(frags) of three fragments: a None fragment is a TypeError.
Join(frags) ==
    IF \E i \in 1 .. Len(frags) : frags[i] = None
    THEN Raise("TypeError")
    ELSE Ok(Concat3(Val(frags[1]), Val(frags[2]), Val(frags[3])))

Person_sort_name(row) ==
    Join(<<Some(row.first_name), row.middle_name, row.last_name>>)

Person_search_index(row) ==
    Join(<<Some(row.first_name), row.middle_name, row.last_name>>)

Organization_sort_name(row) == Ok(row.name)

Organization_search_index(row) == Ok(row.name)

\* ------------------------------------------------------------- resolution
Entity(kind, k) == [kind |-> kind, id |-> k]

\* Party.child with the second lookup's DoesNotExist swallowed too.
Party_child_lenient(k) ==
    IF k \in DOMAIN person THEN Ok(Entity("person", k))
    ELSE Ok(Entity("organization", k))

\* Party.child: self.person, else on Person.DoesNotExist self.organization,
\* whose own DoesNotExist is not caught.
Party_child(k) ==
    IF k \in DOMAIN person THEN Ok(Entity("person", k))
    ELSE IF k \in DOMAIN organization THEN Ok(Entity("organization", k))
    ELSE Raise("DoesNotExist")

sort_name(e) ==
    IF e.kind = "person" THEN Person_sort_name(person[e.id])
    ELSE Organization_sort_name(organization[e.id])

search_index(e) ==
    IF e.kind = "person" THEN Person_search_index(person[e.id])
    ELSE Organization_search_index(organization[e.id])

\* The orders in which the storage may hand back the rows of a table.
Orders(S) ==
    {s \in [1 .. Cardinality(S) -> S] : \A i, j \in DOMAIN s : s[i] = s[j] => i = j}

\* One step of a stable sort: e goes after every element whose key is not
\* greater than its own.
InsertByKey(s, e) ==
    LET before == {i \in 1 .. Len(s) : ~StrLess(sort_name(e).val, sort_name(s[i]).val)}
        n == IF \E i \in 1 .. Len(s) : i \notin before
             THEN (CHOOSE i \in 1 .. Len(s) :
                      i \notin before /\ \A j \in 1 .. (i - 1) : j \in before) - 1
             ELSE Len(s)
    IN SubSeq(s, 1, n) \o <<e>> \o SubSeq(s, n + 1, Len(s))

RECURSIVE sorted(_)
sorted(s) ==
    IF s = <<>> THEN <<>>
    ELSE InsertByKey(sorted(SubSeq(s, 1, Len(s) - 1)), s[Len(s)])

\* PartyManager.children over the rows in storage order `all`: the list
\* comprehension resolves every row first, then sorted() reads every key.
PartyManager_children(all) ==
    IF \E i \in DOMAIN all : Party_child(all[i]).err # ""
    THEN Raise("DoesNotExist")
    ELSE LET kids == [i \in DOMAIN all |-> Party_child(all[i]).val]
         IN IF \E i \in DOMAIN kids : sort_name(kids[i]).err # ""
            THEN Raise("TypeError")
            ELSE Ok(sorted(kids))

\* ------------------------------------------------------------- instances
\* A reference a caller can put in Person.organization: none, or a stored
\* Organization.
OrgRefs == {None} \cup {Some(o) : o \in DOMAIN organization}

\* Person(...) as the caller constructs it: date_added takes its default
\* datetime.now, date_modified its default None; the id is left to the
\* storage or supplied.
NewPerson(F, M, L) ==
    [id : {None} \cup {Some(i) : i \in Ids}, organization : OrgRefs,
     first_name : F, middle_name : M, last_name : L,
     date_added : {now}, date_modified : {None}]

\* A Person read back from storage and edited by the caller.
StoredPerson(F, M, L) ==
    {[id |-> Some(k), organization |-> o, first_name |-> f, middle_name |-> m,
      last_name |-> l, date_added |-> person[k].date_added,
      date_modified |-> person[k].date_modified] :
        k \in DOMAIN person, o \in OrgRefs, f \in F, m \in M, l \in L}

NewOrganization(N) ==
    [id : {None} \cup {Some(i) : i \in Ids}, name : N,
     date_added : {now}, date_modified : {None}]

StoredOrganization(N) ==
    {[id |-> Some(k), name |-> n, date_added |-> organization[k].date_added,
      date_modified |-> organization[k].date_modified] :
        k \in DOMAIN organization, n \in N}

\* The columns of a row: the instance without its primary key.
PersonRow(self) ==
    [organization |-> self.organization, first_name |-> self.first_name,
     middle_name |-> self.middle_name, last_name |-> self.last_name,
     date_added |-> self.date_added, date_modified |-> self.date_modified]

OrganizationRow(self) ==
    [name |-> self.name, date_added |-> self.date_added,
     date_modified |-> self.date_modified]

\* ------------------------------------------------------------- save
\* DateMixin.save up to the call of Model.save: the instance handed on.
DateMixin_save(self) ==
    IF Truthy(self.id)
    THEN [self EXCEPT !.date_added = self.date_added, !.date_modified = Some(now)]
    ELSE self

\* The primary key Model.save writes under: the one given, else a new one.
SavedPk(self, used) == IF self.id = None THEN NewId(used) ELSE Val(self.id)

\* save() returns nothing.
Saved == [op |-> "save", err |-> "", val |-> <<>>]

\* Person.save: DateMixin.save, then Model.save writes the Party row (kept
\* when one with that key exists) and INSERTs or UPDATEs the Person row.
SavePerson(inst) ==
    LET self == DateMixin_save(inst)
        pk == SavedPk(self, party)
    IN /\ pk \in Ids
       /\ party' = party \cup {pk}
       /\ person' = Put(person, pk, PersonRow(self))
       /\ last' = Saved
       /\ UNCHANGED <<organization, attachment, now>>

SaveOrganization(inst) ==
    LET self == DateMixin_save(inst)
        pk == SavedPk(self, party)
    IN /\ pk \in Ids
       /\ party' = party \cup {pk}
       /\ organization' = Put(organization, pk, OrganizationRow(self))
       /\ last' = Saved
       /\ UNCHANGED <<person, attachment, now>>

\* Party(id=...).save(): Party has no DateMixin and no column but its key.
SaveParty(id) ==
    LET pk == SavedPk([id |-> id], party)
    IN /\ pk \in Ids
       /\ party' = party \cup {pk}
       /\ last' = Saved
       /\ UNCHANGED <<person, organization, attachment, now>>

\* ------------------------------------------------------------- delete
\* A delete that does not follow Person.organization.
Collect_shallow(D) == D

\* The ids whose rows a delete collects, from the ids D: a Person whose
\* organization is a collected Organization is collected with it.
RECURSIVE Collect(_)
Collect(D) ==
    LET more == {p \in DOMAIN person :
                    /\ person[p].organization # None
                    /\ Val(person[p].organization) \in D \cap DOMAIN organization}
    IN IF more \subseteq D THEN D ELSE Collect(D \cup more)

RowExists(ct, k) ==
    CASE ct = "party" -> k \in party
      [] ct = "person" -> k \in DOMAIN person
      [] ct = "organization" -> k \in DOMAIN organization

\* Generic relations that miss the rows attached under the Party content
\* type.
RelatedAttachments_subclass_only(D) ==
    {a \in DOMAIN attachment :
        attachment[a].object_id \in D /\ attachment[a].content_type # "party"}

\* The attachment rows the generic relations of Party remove with the rows
\* of keys D: per deleted model, those whose content type is that model.
RelatedAttachments(D) ==
    {a \in DOMAIN attachment :
        attachment[a].object_id \in D
        /\ RowExists(attachment[a].content_type, attachment[a].object_id)}

\* delete() returns nothing; what it removed is kept for the record.
Deleted(kind, k, D, atts) ==
    [op |-> "delete", kind |-> kind, id |-> k, ids |-> D, atts |-> atts,
     err |-> "", val |-> <<>>]

\* delete() of the Person, Organization or Party of key k: the Party row,
\* its specializations, the Persons of a collected Organization, and the
\* attachments of each.
Delete(kind, k) ==
    LET D == Collect({k})
        atts == RelatedAttachments(D)
    IN /\ party' = party \ D
       /\ person' = Restrict(person, DOMAIN person \ D)
       /\ organization' = Restrict(organization, DOMAIN organization \ D)
       /\ attachment' = Restrict(attachment, DOMAIN attachment \ atts)
       /\ last' = Deleted(kind, k, D, atts)
       /\ UNCHANGED now

DeletePerson(k) == k \in DOMAIN person /\ Delete("person", k)

DeleteOrganization(k) == k \in DOMAIN organization /\ Delete("organization", k)

DeleteParty(k) == k \in party /\ Delete("party", k)

\* ------------------------------------------------------------- attachments
ContentTypes == {"party", "person", "organization"}

\* An attachment of `kind` as the caller constructs it for a stored owner.
NewAttachment(kind, T, S) ==
    {a \in [id : {None} \cup {Some(i) : i \in AttIds},
            content_type : ContentTypes, object_id : Ids,
            type : IF HasType(kind) THEN T ELSE {None},
            service : IF HasService(kind) THEN S ELSE {None},
            date_added : {now}, date_modified : {None}] :
        RowExists(a.content_type, a.object_id)}

\* An attachment of `kind` read back from storage and edited by the caller.
StoredAttachment(kind, T, S) ==
    {[id |-> Some(a[2]), content_type |-> attachment[a].content_type,
      object_id |-> attachment[a].object_id, type |-> t, service |-> s,
      date_added |-> attachment[a].date_added,
      date_modified |-> attachment[a].date_modified] :
        a \in {x \in DOMAIN attachment : x[1] = kind},
        t \in IF HasType(kind) THEN T ELSE {None},
        s \in IF HasService(kind) THEN S ELSE {None}}

AttachmentRow(self) ==
    [content_type |-> self.content_type, object_id |-> self.object_id,
     type |-> self.type, service |-> self.service,
     date_added |-> self.date_added, date_modified |-> self.date_modified]

\* The keys in use in the table of `kind`.
TableIds(kind) == {a[2] : a \in {x \in DOMAIN attachment : x[1] = kind}}

\* save() of an EmailAddress, StreetAddress, PhoneNumber, Website, IMAccount
\* or Note: DateMixin.save, then Model.save INSERTs or UPDATEs the row.
SaveAttachment(kind, inst) ==
    LET self == DateMixin_save(inst)
        pk == SavedPk(self, TableIds(kind))
    IN /\ pk \in AttIds
       /\ <<kind, pk>> \in DOMAIN attachment
            \/ Cardinality(DOMAIN attachment) < MaxAttachments
       /\ attachment' = Put(attachment, <<kind, pk>>, AttachmentRow(self))
       /\ last' = Saved
       /\ UNCHANGED <<party, person, organization, now>>

\* delete() of one attachment: nothing refers to it.
DeleteAttachment(a) ==
    /\ a \in DOMAIN attachment
    /\ attachment' = Restrict(attachment, DOMAIN attachment \ {a})
    /\ last' = Deleted(a[1], a[2], {}, {a})
    /\ UNCHANGED <<party, person, organization, now>>

\* ------------------------------------------------------------- queries
Asked(op, k, r) == [op |-> op, id |-> k, err |-> r.err, val |-> r.val]

Resolve(k) ==
    /\ k \in party
    /\ last' = Asked("child", k, Party_child(k))
    /\ UNCHANGED <<party, person, organization, attachment, now>>

ListChildren ==
    /\ \E all \in Orders(party) : last' = Asked("children", 0, PartyManager_children(all))
    /\ UNCHANGED <<party, person, organization, attachment, now>>

ReadSortName(k) ==
    /\ k \in DOMAIN person
    /\ last' = Asked("sort_name", k, Person_sort_name(person[k]))
    /\ UNCHANGED <<party, person, organization, attachment, now>>

ReadSearchIndex(k) ==
    /\ k \in DOMAIN person
    /\ last' = Asked("search_index", k, Person_search_index(person[k]))
    /\ UNCHANGED <<party, person, organization, attachment, now>>

\* datetime.now() moves on.
Tick ==
    /\ now < MaxTime
    /\ now' = now + 1
    /\ UNCHANGED <<party, person, organization, attachment, last>>

\* ------------------------------------------------------------- start
Empty == [x \in {} |-> 0]

Init ==
    /\ party = {}
    /\ person = Empty
    /\ organization = Empty
    /\ attachment = Empty
    /\ now = 1
    /\ last = [op |-> "init", err |-> "", val |-> <<>>]

\* ------------------------------------------------------------- callers
AnyId == {None} \cup {Some(i) : i \in Ids}

\* Names as a form posts them: a text, and the empty text for a field left
\* empty.
Empty3 == {Some(<<>>)}

\* ---- Spec: saves and deletes of the three models and of the attachments.
CreatePerson == \E inst \in NewPerson({<<65>>}, Empty3, Empty3) : SavePerson(inst)

CreateOrganization == \E inst \in NewOrganization({<<66>>}) : SaveOrganization(inst)

CreateParty == \E id \in AnyId : SaveParty(id)

CreateAttachment ==
    \E kind \in Kinds :
        \E inst \in NewAttachment(kind, {None}, {None}) :
            inst.id = None /\ SaveAttachment(kind, inst)

Next ==
    \/ CreatePerson
    \/ CreateOrganization
    \/ CreateParty
    \/ CreateAttachment
    \/ \E k \in Ids : DeletePerson(k)
    \/ \E k \in Ids : DeleteOrganization(k)
    \/ \E k \in Ids : DeleteParty(k)
    \/ \E a \in Kinds \X AttIds : DeleteAttachment(a)

Spec == Init /\ [][Next]_vars

\* ---- SpecParties: the three models without attachments, a form's names,
\* edits of stored rows, and the two queries of Party.
FormPerson ==
    \E inst \in NewPerson({<<65>>}, Empty3, Empty3)
                  \cup StoredPerson({<<65>>}, Empty3, Empty3) :
        SavePerson(inst)

FormOrganization ==
    \E inst \in NewOrganization({<<66>>}) \cup StoredOrganization({<<66>>}) :
        SaveOrganization(inst)

NextParties ==
    \/ FormPerson
    \/ FormOrganization
    \/ CreateParty
    \/ \E k \in Ids : DeletePerson(k)
    \/ \E k \in Ids : DeleteOrganization(k)
    \/ \E k \in Ids : DeleteParty(k)
    \/ \E k \in Ids : Resolve(k)
    \/ ListChildren

SpecParties == Init /\ [][NextParties]_vars

\* ---- SpecEntities: Person and Organization only, as code constructs
\* them: a name column left out of Person(...) is None.
FirstNames == {<<66>>}

OptionalNames == {None, Some(<<>>)}

OrganizationNames == {<<66>>, <<97>>}

CodePerson ==
    \E inst \in NewPerson(FirstNames, OptionalNames, OptionalNames)
                  \cup StoredPerson(FirstNames, OptionalNames, OptionalNames) :
        SavePerson(inst)

CodeOrganization ==
    \E inst \in NewOrganization(OrganizationNames)
                  \cup StoredOrganization(OrganizationNames) :
        SaveOrganization(inst)

NextEntities ==
    \/ CodePerson
    \/ CodeOrganization
    \/ \E k \in Ids : DeletePerson(k)
    \/ \E k \in Ids : DeleteOrganization(k)
    \/ \E k \in Ids : Resolve(k)
    \/ \E k \in Ids : ReadSortName(k)
    \/ \E k \in Ids : ReadSearchIndex(k)
    \/ ListChildren

SpecEntities == Init /\ [][NextEntities]_vars

\* ---- SpecAudit: saves of every model that carries DateMixin, while the
\* clock moves: new instances with or without an id, edits of stored rows,
\* required names left empty, and type / service values in and out of the
\* choices.  The callers stop adding rows at MaxRows rows in all.
Rows == Cardinality(party) + Cardinality(DOMAIN attachment)

RequiredFirstNames == {<<>>, <<65>>}

RequiredNames == {<<>>, <<66>>}

Types == {None, Some("home")}

Services == {None, Some("irc")}

AuditPerson ==
    \E inst \in NewPerson(RequiredFirstNames, {None}, {None})
                  \cup StoredPerson(RequiredFirstNames, {None}, {None}) :
        /\ SavedPk(inst, party) \in party \/ Rows < MaxRows
        /\ SavePerson(inst)

AuditOrganization ==
    \E inst \in NewOrganization(RequiredNames) \cup StoredOrganization(RequiredNames) :
        /\ SavedPk(inst, party) \in party \/ Rows < MaxRows
        /\ SaveOrganization(inst)

AuditAttachment ==
    \E kind \in Kinds :
        \E inst \in NewAttachment(kind, Types, Services)
                      \cup StoredAttachment(kind, Types, Services) :
            /\ <<kind, SavedPk(inst, TableIds(kind))>> \in DOMAIN attachment
                 \/ Rows < MaxRows
            /\ SaveAttachment(kind, inst)

NextAudit ==
    \/ AuditPerson
    \/ AuditOrganization
    \/ AuditAttachment
    \/ Tick

SpecAudit == Init /\ [][NextAudit]_vars

\* ------------------------------------------------------------- properties
Orphan(k) == k \in party /\ k \notin DOMAIN person /\ k \notin DOMAIN organization

Twofold(k) == k \in DOMAIN person /\ k \in DOMAIN organization

EntityKinds == {"party", "person", "organization"}

\* A step that deleted a Party, Person or Organization.
EntityDeleted == party' # party /\ party' \subseteq party

\* C1: after any sequence of saves and deletes of Person and Organization,
\* every Party row has exactly one of a Person row and an Organization row,
\* and Party.child returns that one.
C1_ExactlyOneSpecialization ==
    \A k \in party :
        /\ (k \in DOMAIN person) # (k \in DOMAIN organization)
        /\ Party_child(k) =
             Ok(Entity(IF k \in DOMAIN person THEN "person" ELSE "organization", k))

\* C2: PartyManager.children() returns every Party once, each as its
\* Person or Organization, with sort_name non-decreasing along the list.
C2_ChildrenCompleteAndSorted ==
    last.op = "children" =>
        /\ last.err = ""
        /\ Len(last.val) = Cardinality(party)
        /\ \A k \in party :
              \E i \in DOMAIN last.val :
                  /\ last.val[i].id = k
                  /\ last.val[i].kind = "person" => k \in DOMAIN person
                  /\ last.val[i].kind = "organization" => k \in DOMAIN organization
        /\ \A i \in 1 .. (Len(last.val) - 1) :
              ~StrLess(sort_name(last.val[i + 1]).val, sort_name(last.val[i]).val)

\* The rows of one table before and after a step: a new row, and a row
\* that a save rewrote.
AuditKept(old, new) ==
    \A k \in DOMAIN new :
        IF k \notin DOMAIN old
        THEN new[k].date_added = now /\ new[k].date_modified = None
        ELSE new[k] # old[k] =>
                /\ new[k].date_added = old[k].date_added
                /\ new[k].date_modified = Some(now)

\* C3: the first save of a record stores date_added = the time of creation
\* and date_modified = None; a later save keeps date_added and sets
\* date_modified to the time of that save.
C3_AuditTimestamps ==
    [][/\ AuditKept(person, person')
       /\ AuditKept(organization, organization')
       /\ AuditKept(attachment, attachment')]_vars

\* C4, as claimed: a delete of the Party, Person or Organization of key k
\* leaves no attachment owned under key k and touches no attachment owned
\* under another key.
C4_OthersUntouched ==
    [][(EntityDeleted /\ last'.op = "delete") =>
          /\ \A a \in DOMAIN attachment' : attachment'[a].object_id # last'.id
          /\ \A a \in DOMAIN attachment :
                attachment[a].object_id # last'.id =>
                    a \in DOMAIN attachment' /\ attachment'[a] = attachment[a]]_vars

\* C4, amended: a delete of a Party, Person or Organization leaves no
\* attachment of any kind owned under the key of a row it deleted (its
\* target, and every Party the cascade deletes with it), and leaves every
\* attachment whose owner's key survives as it was.
C4_CascadeDeletesOwned ==
    [][(EntityDeleted /\ last'.op = "delete") =>
          LET D == party \ party'
          IN /\ last'.id \in D
             /\ \A k \in D : k \notin DOMAIN person' /\ k \notin DOMAIN organization'
             /\ \A a \in DOMAIN attachment' : attachment'[a].object_id \notin D
             /\ \A a \in DOMAIN attachment :
                   attachment[a].object_id \notin D =>
                       a \in DOMAIN attachment' /\ attachment'[a] = attachment[a]]_vars

\* A delete removed the attachments of its target while another owner's
\* attachment stayed.
C4_Witness ==
    /\ last.op = "delete"
    /\ last.kind \in EntityKinds
    /\ \E a \in last.atts : a[1] = "Note"
    /\ \E a \in DOMAIN attachment : a[1] = "IMAccount"

\* C5: Party.child of a Party with neither a Person nor an Organization
\* fails, and children() returns no such Party in its list.
C5_OrphanNeverReturned ==
    /\ (last.op = "child" /\ Orphan(last.id)) => last.err = "DoesNotExist"
    /\ (last.op = "children" /\ last.err = "") =>
          \A i \in DOMAIN last.val : ~Orphan(last.val[i].id)
    /\ (last.op = "children" /\ \E k \in party : Orphan(k)) => last.err # ""

\* children() ran over a store that holds an orphaned Party and a Person.
C5_Witness ==
    /\ last.op = "children"
    /\ \E k \in party : Orphan(k)
    /\ DOMAIN person # {}

\* C6: Party.child of a Party with both a Person and an Organization
\* fails with an error.
C6_TwofoldSurfaced ==
    (last.op = "child" /\ Twofold(last.id)) => last.err # ""

\* C7: no stored Person has an empty first_name, no stored Organization an
\* empty name, no stored attachment a type or service outside its choices.
C7_NoInvalidRowStored ==
    /\ \A k \in DOMAIN person : person[k].first_name # <<>>
    /\ \A k \in DOMAIN organization : organization[k].name # <<>>
    /\ \A a \in DOMAIN attachment :
          /\ attachment[a].type \subseteq TYPE_CHOICES(a[1])
          /\ attachment[a].service \subseteq SERVICE_CHOICES

\* A Person created with only first_name set.
OnlyFirstName(row) ==
    /\ row.middle_name \in {None, Some(<<>>)}
    /\ row.last_name \in {None, Some(<<>>)}

\* C8: sort_name and search_index of a Person whose middle_name and
\* last_name are None or empty return a text that starts with first_name,
\* and children() over a store with such a Person does not fail.
C8_NamesDegrade ==
    /\ (last.op \in {"sort_name", "search_index"} /\ OnlyFirstName(person[last.id])) =>
          /\ last.err = ""
          /\ SubSeq(last.val, 1, Len(person[last.id].first_name))
               = person[last.id].first_name
    /\ (last.op = "children" /\ \E k \in DOMAIN person : OnlyFirstName(person[k])) =>
          last.err = ""

\* The rows a step added to one table.
Inserted(old, new) ==
    \A k \in DOMAIN new : k \notin DOMAIN old => new[k].date_modified = None

\* C9: a save that inserts a row (no row of that key was stored) leaves
\* date_modified None, whether the key was given by the caller or not.
C9_InsertDecidedByStorage ==
    [][/\ Inserted(person, person')
       /\ Inserted(organization, organization')
       /\ Inserted(attachment, attachment')]_vars

====
